---- MODULE Spec2Model ----
(***************************************************************************)
(* A model of CppProjectAnalyzer (src/src/CppProjectAnalyzer.py): file     *)
(* discovery, the per-file include analysis in sequential and in parallel  *)
(* mode, cycle detection and unused-header detection, the suggestions, the *)
(* build-time estimates and the summary analyze_project returns, repeated  *)
(* calls of analyze_project on one analyzer, cycle detection call by call  *)
(* on deep include chains, and the path check of main (src/src/main.py).   *)
(*                                                                         *)
(* A file's text is a sequence of non-blank lines.  A line is an #include  *)
(* directive in quoted or angle form, or some other line of code.  Paths   *)
(* are written relative to the project root.                               *)
(***************************************************************************)
EXTENDS Naturals, Integers, Sequences, FiniteSets, TLC

(***************************************************************************)
(* Bounds of the model.                                                    *)
(***************************************************************************)
\* the number of lines of all files of the project together
MaxTotalLines == 2
\* the value given to max_header_includes (--max-includes)
MaxIncludes == 1
\* the value given to max_file_complexity (--max-complexity)
MaxComplexity == 1
\* the value given to max_header_size (--max-header-size), in characters
MaxHeaderSize == 20
\* the largest multiprocessing.cpu_count()
MaxCpu == 2
\* the number of files whose analysis may take longer than analysis_timeout
MaxOvertime == 1
\* the number of edges of a dependency graph handed to the graph-level checks
MaxEdges == 4
\* the number of files of a project tree other than ProjectTree
MaxDiskFiles == 3
\* the number of lines of a text handed to _calculate_complexity
MaxScoredLines == 3
\* the number of calls of _resolve_include_path that are followed
MaxCalls == 2
\* the number of lines of a long stretch of code in a source file
BlockLines == 1500
\* the number of calls of analyze_project after the first one
MaxReruns == 1
\* the number of headers of a project in which each header includes the next
MaxChain == 1001

(***************************************************************************)
(* The project tree on disk.                                               *)
(***************************************************************************)
\* every file under the project root, in the order sorted() gives Paths
ProjectTree == <<"a.h", "b.hxx", "d/a.h", "d/c.cpp">>

DiskFiles == {ProjectTree[i] : i \in 1..Len(ProjectTree)}

\* the paths a project root may hold a file at, in the order sorted() gives
\* Paths: the files of ProjectTree, a file without suffix, a header under
\* build/, a second directory holding an a.h, and a source file named .C
Paths == <<"a.h", "b", "b.hxx", "build/a.h", "d/a.h", "d/c.cpp", "e/a.h", "m.C">>

AllPaths == {Paths[i] : i \in 1..Len(Paths)}

\* the directories under the project root
Directories == {"build", "d", "e"}

\* the headers of a project in which each header includes the next
ChainFile(i) ==
    "h" \o (IF i < 10 THEN "000" ELSE IF i < 100 THEN "00" ELSE IF i < 1000 THEN "0" ELSE "")
        \o ToString(i) \o ".h"

ChainFiles == {ChainFile(i) : i \in 1..MaxChain}

\* Path.parent, relative to the project root ("" is the root itself)
Parent(p) ==
    CASE p \in {"d/a.h", "d/c.cpp"} -> "d"
      [] p = "build/a.h" -> "build"
      [] p = "e/a.h" -> "e"
      [] OTHER -> ""

\* Path.suffix
Suffix(p) ==
    CASE p \in {"a.h", "d/a.h", "build/a.h", "e/a.h"} -> ".h"
      [] p = "b.hxx" -> ".hxx"
      [] p = "d/c.cpp" -> ".cpp"
      [] p = "m.C" -> ".C"
      [] p \in {"b"} -> ""
      [] OTHER -> IF p \in ChainFiles THEN ".h" ELSE ""

\* dir / name
JoinPath(dir, name) == IF dir = "" THEN name ELSE dir \o "/" \o name

\* the position of a path in sorted() order
SortKey(p) == CHOOSE i \in 1..Len(Paths) : Paths[i] = p

None == "<None>"

\* a dict without keys, and d[k] = v
EmptyDict == [k \in {} |-> 0]

SetItem(d, k, v) == [x \in DOMAIN d \cup {k} |-> IF x = k THEN v ELSE d[x]]

(***************************************************************************)
(* File texts.                                                             *)
(***************************************************************************)
\* the names written in the include directives of the project
IncludeNames == {"a.h", "b"}

QuoteInclude(n) == [kind |-> "quote", name |-> n]
AngleInclude(n) == [kind |-> "angle", name |-> n]
OtherLine == [kind |-> "other", name |-> ""]

Lines == {QuoteInclude(n) : n \in IncludeNames} \cup
         {AngleInclude(n) : n \in IncludeNames} \cup {OtherLine}

IsInclude(line) == line.kind \in {"quote", "angle"}

\* the lines _calculate_complexity tells apart: a template declaration, a
\* template specialization, a class declaration, a function definition, a
\* macro definition
CodeLine(kind) == [kind |-> kind, name |-> ""]

\* a stretch of BlockLines lines of code that are no include directives
Block == CodeLine("block")

\* the number of lines an element of a text stands for
LinesOf(line) == IF line.kind = "block" THEN BlockLines ELSE 1

ScoredLines ==
    Lines \cup {CodeLine(kind) :
                  kind \in {"template", "template_spec", "class", "function", "define"}}

\* the text of a line, as it stands in the file
LineText(line) ==
    CASE line.kind = "quote" -> "#include \"" \o line.name \o "\"\n"
      [] line.kind = "angle" -> "#include <" \o line.name \o ">\n"
      [] line.kind = "template" -> "template<typename T>\n"
      [] line.kind = "template_spec" -> "template<> void f<int>();\n"
      [] line.kind = "class" -> "class A;\n"
      [] line.kind = "function" -> "void f() {}\n"
      [] line.kind = "define" -> "#define M 1\n"
      [] OTHER -> "int x;\n"

RECURSIVE SeqSum(_)
SeqSum(s) == IF s = <<>> THEN 0 ELSE Head(s) + SeqSum(Tail(s))

\* len(content)
ContentLen(c) == SeqSum([i \in 1..Len(c) |-> LinesOf(c[i]) * Len(LineText(c[i]))])

\* len(f.readlines())
LineCount(c) == SeqSum([i \in 1..Len(c) |-> LinesOf(c[i])])

\* all texts of at most n lines
TextsUpTo(n) == UNION {[1..k -> Lines] : k \in 0..n}

\* the texts of the files from the i-th on, of at most n lines together
RECURSIVE TextsOfFiles(_, _)
TextsOfFiles(i, n) ==
    IF i > Len(ProjectTree) THEN {<<>>}
    ELSE UNION {{<<t>> \o rest : rest \in TextsOfFiles(i + 1, n - Len(t))} :
                   t \in TextsUpTo(n)}

\* the projects: a text for every file of the tree
Projects ==
    {[p \in DiskFiles |-> texts[CHOOSE i \in 1..Len(ProjectTree) : ProjectTree[i] = p]] :
        texts \in TextsOfFiles(1, MaxTotalLines)}

(***************************************************************************)
(* Configuration.                                                          *)
(***************************************************************************)
\* the values of AnalysisConfig the runs are made with
Configs ==
    [parallel_analysis : BOOLEAN,
     max_header_includes : {MaxIncludes},
     max_file_complexity : {MaxComplexity},
     max_header_size : {MaxHeaderSize},
     enable_circular_dep_check : {TRUE},
     enable_unused_header_check : {TRUE},
     enable_template_analysis : {TRUE}]

VARIABLES
    root,               \* what stands at the project path
    disk,               \* the files under the project root
    scan_order,         \* the order in which os.scandir lists the directories
    ignore_patterns,    \* self.ignore_patterns
    fault,              \* per file, the step of its analysis that raises
    content,            \* the text of every file on disk
    analysis_config,    \* self.analysis_config
    pc,                 \* where analyze_project stands
    files,              \* self.files
    include_graph,      \* self.include_graph
    dependency_count,   \* self.dependency_count
    file_sizes,         \* self.file_sizes
    header_frequency,   \* self.header_frequency
    circular_deps,      \* self.circular_deps
    unused_headers,     \* self.unused_headers
    issues,             \* self.issues
    analysed,           \* the files whose _analyze_file_includes has returned
    max_workers,        \* the size of the thread pool: multiprocessing.cpu_count()
    task,               \* the worker's position in _analyze_file_includes, per file
    overtime,           \* the files whose analysis took longer than analysis_timeout
    timeout_warnings,   \* the files reported as timed out
    suggestions,        \* self.suggestions
    file_complexity,    \* the file_complexity of the JSON report
    resolutions,        \* the calls of _resolve_include_path that are followed
    earlier_runs,       \* the analysis data the earlier calls of analyze_project left
    visited,            \* visited of _detect_circular_dependencies
    recursion_stack,    \* recursion_stack of _detect_circular_dependencies
    frames,             \* the calls of dfs that have not returned, with what each has left to do
    build_times_estimate, \* self.build_times_estimate, in microseconds
    result              \* what analyze_project has returned

analysis_vars == <<include_graph, dependency_count, file_sizes, header_frequency,
                   circular_deps, unused_headers, issues, analysed>>
world_vars == <<root, disk, scan_order, ignore_patterns, fault, content, analysis_config>>
pool_vars == <<max_workers, task, overtime, timeout_warnings>>
dfs_vars == <<visited, recursion_stack, frames>>
report_vars == <<suggestions, file_complexity, resolutions, earlier_runs,
                 build_times_estimate, result, dfs_vars>>

vars == <<root, disk, scan_order, ignore_patterns, fault, suggestions, file_complexity,
          resolutions, earlier_runs, visited, recursion_stack, frames,
          build_times_estimate, result,
          content, analysis_config, pc, files, include_graph, dependency_count,
          file_sizes, header_frequency, circular_deps, unused_headers, issues,
          analysed, max_workers, task, overtime, timeout_warnings>>

(***************************************************************************)
(* discover_files                                                          *)
(***************************************************************************)
cpp_extensions == {".cpp", ".cc", ".cxx", ".c++", ".C"}
header_extensions == {".h", ".hpp", ".hh", ".hxx", ".h++", ".inl"}

default_ignore_patterns ==
    {"build/", "cmake-build-", ".git/", "third_party/", "external/", "test/",
     "tests/", "benchmark/", "vendor/", "node_modules/", "__pycache__/",
     ".vscode/", ".vs/", "Debug/", "Release/", "x64/", "x86/"}

\* the patterns a user gives with --ignore
UserPatterns == {"a.h", "d/*"}

\* fnmatch.fnmatch(file_str, pattern): the whole of file_str has to match
\* the pattern, in which * stands for any characters, / included
FnMatch(file_str, pattern) ==
    IF pattern = "d/*" THEN Parent(file_str) = "d" ELSE file_str = pattern

ShouldIgnoreFile(p) ==
    LET all_ignore_patterns == default_ignore_patterns \cup ignore_patterns
    IN  \E pattern \in all_ignore_patterns : FnMatch(p, pattern)

\* sorted(S) as a sequence
RECURSIVE Sorted(_)
Sorted(S) ==
    IF S = {} THEN <<>>
    ELSE LET m == CHOOSE x \in S : \A y \in S : SortKey(x) <= SortKey(y)
         IN  <<m>> \o Sorted(S \ {m})

\* what project_path.glob yields for the patterns **/*ext together: the
\* files under a directory that can be listed, and nothing otherwise
GlobFiles == IF root = "directory" THEN disk ELSE {}

DiscoverFiles ==
    Sorted({p \in GlobFiles :
              /\ Suffix(p) \in cpp_extensions \cup header_extensions
              /\ ~ShouldIgnoreFile(p)})

(***************************************************************************)
(* _resolve_include_path                                                   *)
(***************************************************************************)
\* the first character of an include name
FirstChar(n) == CASE n = "a.h" -> "a" [] n = "b" -> "b" [] OTHER -> ""

Exists(p) == p \in disk

\* the walk of rglob with the directories listed in another order at every
\* other call
IterateDirectoriesByTurns ==
    LET listed == SelectSeq(scan_order, LAMBDA dir : \E p \in disk : Parent(p) = dir)
    IN  <<"">> \o (IF Len(resolutions) % 2 = 0 THEN listed
                   ELSE [i \in 1..Len(listed) |-> listed[Len(listed) + 1 - i]])

\* the directories rglob walks: the root first, then the directories under
\* it as os.scandir lists them
IterateDirectories ==
    <<"">> \o SelectSeq(scan_order, LAMBDA dir : \E p \in disk : Parent(p) = dir)

search_extensions == <<"", ".h", ".hpp", ".hh", ".hxx">>

\* the first file project_path.rglob(pattern) yields, or None
RECURSIVE RGlobFirst(_, _)
RGlobFirst(pattern, i) ==
    IF i > Len(IterateDirectories) THEN None
    ELSE LET candidate == JoinPath(IterateDirectories[i], pattern)
         IN  IF Exists(candidate) THEN candidate ELSE RGlobFirst(pattern, i + 1)

\* the loop over the extensions, from the i-th on
RECURSIVE SearchProject(_, _)
SearchProject(include_name, i) ==
    IF i > Len(search_extensions) THEN None
    ELSE LET candidate_path == include_name \o search_extensions[i]
             candidate == JoinPath("", candidate_path)
             header_file == RGlobFirst(candidate_path, 1)
         IN  IF Exists(candidate) THEN candidate
             ELSE IF header_file # None THEN header_file
             ELSE SearchProject(include_name, i + 1)

\* include_name is the group the include pattern captured: the name without
\* its delimiters, so it never starts with < or with "
ResolveIncludePath(source_file, include_name) ==
    IF FirstChar(include_name) = "<" THEN None
    ELSE IF /\ FirstChar(include_name) = "\""
            /\ Exists(JoinPath(Parent(source_file), include_name))
         THEN JoinPath(Parent(source_file), include_name)
    ELSE SearchProject(include_name, 1)

(***************************************************************************)
(* _calculate_complexity and _detect_file_issues                           *)
(***************************************************************************)
CountLines(c, kinds) == Cardinality({i \in 1..Len(c) : c[i].kind \in kinds})

\* the score with the half of every macro definition truncated by itself
CalculateComplexityOfWholes(c, cfg) ==
    LET templates == IF cfg.enable_template_analysis
                     THEN 3 * CountLines(c, {"template", "template_spec"})
                          + 2 * CountLines(c, {"template_spec"})
                     ELSE 0
    IN  templates + CountLines(c, {"quote", "angle"}) + 2 * CountLines(c, {"class"})
        + CountLines(c, {"function"})

\* twice the weighted sum, halved at the end: int(complexity)
CalculateComplexity(c, cfg) ==
    LET templates == IF cfg.enable_template_analysis
                     THEN 3 * CountLines(c, {"template", "template_spec"})
                          + 2 * CountLines(c, {"template_spec"})
                     ELSE 0
        includes == CountLines(c, {"quote", "angle"})
        classes == 2 * CountLines(c, {"class"})
        functions == CountLines(c, {"function"})
        macros == CountLines(c, {"define"})
    IN  (2 * (templates + includes + classes + functions) + macros) \div 2

Issue(type, file, severity) == [type |-> type, file |-> file, severity |-> severity]

\* _detect_file_issues with >= for > in the test of the include count
DetectFileIssuesAtThreshold(file_path, c, cfg) ==
    (IF CountLines(c, {"quote", "angle"}) >= cfg.max_header_includes
     THEN <<Issue("EXCESSIVE_INCLUDES", file_path, "MEDIUM")>> ELSE <<>>)
    \o
    (IF CalculateComplexity(c, cfg) > cfg.max_file_complexity
     THEN <<Issue("HIGH_COMPLEXITY", file_path, "HIGH")>> ELSE <<>>)
    \o
    (IF Suffix(file_path) \in {".h", ".hpp", ".hh"} /\ ContentLen(c) > cfg.max_header_size
     THEN <<Issue("LARGE_HEADER", file_path, "MEDIUM")>> ELSE <<>>)

\* _detect_file_issues with the test of the header size made first
DetectFileIssuesSizeFirst(file_path, c, cfg) ==
    (IF Suffix(file_path) \in {".h", ".hpp", ".hh"} /\ ContentLen(c) > cfg.max_header_size
     THEN <<Issue("LARGE_HEADER", file_path, "MEDIUM")>> ELSE <<>>)
    \o
    (IF CountLines(c, {"quote", "angle"}) > cfg.max_header_includes
     THEN <<Issue("EXCESSIVE_INCLUDES", file_path, "MEDIUM")>> ELSE <<>>)
    \o
    (IF CalculateComplexity(c, cfg) > cfg.max_file_complexity
     THEN <<Issue("HIGH_COMPLEXITY", file_path, "HIGH")>> ELSE <<>>)

\* the issues _detect_file_issues appends, in order
DetectFileIssues(file_path, c, cfg) ==
    LET include_count == CountLines(c, {"quote", "angle"})
        complexity_score == CalculateComplexity(c, cfg)
        file_size == ContentLen(c)
    IN  (IF include_count > cfg.max_header_includes
         THEN <<Issue("EXCESSIVE_INCLUDES", file_path, "MEDIUM")>> ELSE <<>>)
        \o
        (IF complexity_score > cfg.max_file_complexity
         THEN <<Issue("HIGH_COMPLEXITY", file_path, "HIGH")>> ELSE <<>>)
        \o
        (IF Suffix(file_path) \in {".h", ".hpp", ".hh"} /\ file_size > cfg.max_header_size
         THEN <<Issue("LARGE_HEADER", file_path, "MEDIUM")>> ELSE <<>>)

(***************************************************************************)
(* _analyze_file_includes                                                  *)
(***************************************************************************)
\* include_pattern.findall(content): the pattern is compiled without
\* re.MULTILINE, so ^ matches at the start of the text only
IncludePatternFindall(c) ==
    IF c # <<>> /\ IsInclude(c[1]) THEN <<c[1].name>> ELSE <<>>

\* the analysis data _analyze_file_includes works on
AnalysisData(g, dc, fs, hf, is) ==
    [include_graph |-> g, dependency_count |-> dc, file_sizes |-> fs,
     header_frequency |-> hf, issues |-> is]

\* the body of the loop over the includes
RecordInclude(st, file_path, included) ==
    LET hf == [st.header_frequency EXCEPT ![included] = @ + 1]
        resolved_path == ResolveIncludePath(file_path, included)
    IN  IF resolved_path # None
        THEN [st EXCEPT !.header_frequency = hf,
                        !.include_graph[file_path] = @ \cup {resolved_path},
                        !.dependency_count[resolved_path] = @ + 1]
        ELSE [st EXCEPT !.header_frequency = hf]

RECURSIVE RecordIncludes(_, _, _)
RecordIncludes(st, file_path, includes) ==
    IF includes = <<>> THEN st
    ELSE RecordIncludes(RecordInclude(st, file_path, Head(includes)),
                        file_path, Tail(includes))

\* the statements under try, when none of them raises
AnalyzeFileIncludes(st, file_path, c, cfg) ==
    LET sized == [st EXCEPT !.file_sizes = SetItem(@, file_path, ContentLen(c))]
        linked == RecordIncludes(sized, file_path, IncludePatternFindall(c))
    IN  [linked EXCEPT !.issues = @ \o DetectFileIssues(file_path, c, cfg)]

\* the steps of the analysis of a file that may raise: open (the file cannot
\* be read), _resolve_include_path, _detect_file_issues
Faults == {"open", "resolve", "issues"}

\* _analyze_file_includes when the step raises raises: the statements before
\* it have acted, and except Exception ends the analysis of the file
TryAnalyzeFileIncludes(st, file_path, c, cfg, raises) ==
    LET sized == [st EXCEPT !.file_sizes = SetItem(@, file_path, ContentLen(c))]
        includes == IncludePatternFindall(c)
    IN  CASE raises = "open" -> st
          [] raises = "resolve" /\ includes # <<>> ->
               [sized EXCEPT !.header_frequency[Head(includes)] = @ + 1]
          [] raises = "issues" -> RecordIncludes(sized, file_path, includes)
          [] OTHER -> AnalyzeFileIncludes(st, file_path, c, cfg)

(***************************************************************************)
(* Iteration over a Python set.  The elements of the sets are Paths, whose *)
(* hash is the hash of a string: the order of iteration changes with the   *)
(* hash seed of the process.  ord is a sequence holding every path once;   *)
(* a set is iterated in the order ord gives its elements.                  *)
(***************************************************************************)
RECURSIVE Perms(_)
Perms(S) ==
    IF S = {} THEN {<<>>}
    ELSE UNION {{<<x>> \o rest : rest \in Perms(S \ {x})} : x \in S}

HashOrders == Perms(disk)

\* list(S)
RECURSIVE ListOf(_, _)
ListOf(S, ord) ==
    IF ord = <<>> THEN <<>>
    ELSE (IF Head(ord) \in S THEN <<Head(ord)>> ELSE <<>>) \o ListOf(S, Tail(ord))

\* list.index(x)
IndexOf(s, x) == CHOOSE i \in 1..Len(s) : s[i] = x /\ \A j \in 1..(i - 1) : s[j] # x

(***************************************************************************)
(* _detect_circular_dependencies                                           *)
(***************************************************************************)
\* dfs(file_path) on d = [visited, recursion_stack, circular_deps], and the
\* loop over the dependencies of a file
RECURSIVE Dfs(_, _, _, _), DfsEach(_, _, _, _)

\* dfs without recursion_stack.remove(file_path): a file stays on the stack
\* once it was entered
DfsKeepingStack(d, file_path, graph, ord) ==
    IF file_path \in d.recursion_stack
    THEN LET stack == ListOf(d.recursion_stack, ord)
             cycle_start == IndexOf(stack, file_path)
             cycle == SubSeq(stack, cycle_start, Len(stack))
         IN  [d EXCEPT !.circular_deps = Append(@, cycle)]
    ELSE IF file_path \in d.visited THEN d
    ELSE LET entered == [d EXCEPT !.visited = @ \cup {file_path},
                                  !.recursion_stack = @ \cup {file_path}]
         IN  DfsEach(entered, ListOf(graph[file_path], ord), graph, ord)

\* dfs with the test of visited made before the test of recursion_stack
DfsVisitedFirst(d, file_path, graph, ord) ==
    IF file_path \in d.visited THEN d
    ELSE IF file_path \in d.recursion_stack
    THEN LET stack == ListOf(d.recursion_stack, ord)
             cycle_start == IndexOf(stack, file_path)
             cycle == SubSeq(stack, cycle_start, Len(stack))
         IN  [d EXCEPT !.circular_deps = Append(@, cycle)]
    ELSE LET entered == [d EXCEPT !.visited = @ \cup {file_path},
                                  !.recursion_stack = @ \cup {file_path}]
             explored == DfsEach(entered, ListOf(graph[file_path], ord), graph, ord)
         IN  [explored EXCEPT !.recursion_stack = @ \ {file_path}]

Dfs(d, file_path, graph, ord) ==
    IF file_path \in d.recursion_stack
    THEN LET stack == ListOf(d.recursion_stack, ord)
             cycle_start == IndexOf(stack, file_path)
             cycle == SubSeq(stack, cycle_start, Len(stack))
         IN  [d EXCEPT !.circular_deps = Append(@, cycle)]
    ELSE IF file_path \in d.visited THEN d
    ELSE LET entered == [d EXCEPT !.visited = @ \cup {file_path},
                                  !.recursion_stack = @ \cup {file_path}]
             explored == DfsEach(entered, ListOf(graph[file_path], ord), graph, ord)
         IN  [explored EXCEPT !.recursion_stack = @ \ {file_path}]

DfsEach(d, dependencies, graph, ord) ==
    IF dependencies = <<>> THEN d
    ELSE DfsEach(Dfs(d, Head(dependencies), graph, ord), Tail(dependencies), graph, ord)

\* the loop over self.files
RECURSIVE DfsFiles(_, _, _, _)
DfsFiles(d, fs, graph, ord) ==
    IF fs = <<>> THEN d
    ELSE DfsFiles(IF Head(fs) \notin d.visited THEN Dfs(d, Head(fs), graph, ord) ELSE d,
                  Tail(fs), graph, ord)

DetectCircularDependencies(fs, graph, found, ord) ==
    DfsFiles([visited |-> {}, recursion_stack |-> {}, circular_deps |-> found],
             fs, graph, ord)

\* the issues appended for the cycles
CircularIssues(cycles) ==
    [i \in 1..Len(cycles) |-> Issue("CIRCULAR_DEPENDENCY", "Cycle " \o ToString(i), "HIGH")]

(***************************************************************************)
(* _detect_unused_headers                                                  *)
(***************************************************************************)
IncludedHeaders(graph) == UNION {graph[p] : p \in DOMAIN graph}

unused_check_suffixes == {".h", ".hpp", ".hh"}

AllHeaders(fs) == {fs[i] : i \in 1..Len(fs)} \cap {p \in DiskFiles : Suffix(p) \in unused_check_suffixes}

\* _detect_unused_headers with the including files (the keys of the graph)
\* taken for the included ones (its values)
DetectUnusedHeadersByKeys(fs, graph) ==
    AllHeaders(fs) \ {p \in DOMAIN graph : graph[p] # {}}

DetectUnusedHeaders(fs, graph) == AllHeaders(fs) \ IncludedHeaders(graph)

UnusedIssues(unused, ord) ==
    LET hs == ListOf(unused, ord)
    IN  [i \in 1..Len(hs) |-> Issue("UNUSED_HEADER", hs[i], "LOW")]

(***************************************************************************)
(* generate_suggestions                                                    *)
(***************************************************************************)
Suggestion(type, target, priority) == [type |-> type, target |-> target, priority |-> priority]

\* the OptimizationConfig of a run without optimization options
optimization_config == [cache_compilation |-> TRUE, unity_build |-> FALSE]

\* the thresholds of the suggestions
forward_declaration_uses == 5
pimpl_header_size == 15000
\* 1.0 second, in microseconds
slow_file_micros == 1000000
max_slow_files == 5

\* a dict is iterated in the order of insertion, which is the order the
\* analyses got to the file: ord stands for it
SuggestForwardDeclarations(ord) ==
    LET highly_included_headers ==
            ListOf({p \in DOMAIN dependency_count :
                      /\ dependency_count[p] > forward_declaration_uses
                      /\ Suffix(p) \in {".h", ".hpp", ".hh"}}, ord)
    IN  [i \in 1..Len(highly_included_headers) |->
            Suggestion("FORWARD_DECLARATION", highly_included_headers[i], "HIGH")]

SuggestPimplPattern(ord) ==
    LET large_headers ==
            ListOf({p \in DOMAIN file_sizes :
                      /\ file_sizes[p] > pimpl_header_size
                      /\ Suffix(p) \in {".h", ".hpp", ".hh"}}, ord)
    IN  [i \in 1..Len(large_headers) |->
            Suggestion("PIMPL_PATTERN", large_headers[i], "MEDIUM")]

SuggestBuildOptimizations ==
    <<Suggestion("BUILD_OPTIMIZATION", "PROJECT", "HIGH")>>
    \o (IF optimization_config.cache_compilation
        THEN <<Suggestion("BUILD_OPTIMIZATION", "PROJECT", "MEDIUM")>> ELSE <<>>)
    \o (IF optimization_config.unity_build
        THEN <<Suggestion("BUILD_OPTIMIZATION", "PROJECT", "MEDIUM")>> ELSE <<>>)

\* the suggestions for Compiler.GCC, the compiler analyzers are made with
SuggestCompilerSpecificOptimizations ==
    <<Suggestion("COMPILER_OPTIMIZATION", "GCC", "MEDIUM"),
      Suggestion("COMPILER_OPTIMIZATION", "GCC", "LOW")>>

\* sorted(S, key = the estimate, reverse = True): the sort is stable, files
\* of equal estimates stay in the order of the catalog
RECURSIVE SortedByEstimate(_, _)
SortedByEstimate(S, estimate) ==
    IF S = {} THEN <<>>
    ELSE LET m == CHOOSE x \in S : \A y \in S :
                     \/ estimate[x] > estimate[y]
                     \/ estimate[x] = estimate[y] /\ SortKey(x) <= SortKey(y)
         IN  <<m>> \o SortedByEstimate(S \ {m}, estimate)

SuggestCodeRestructuring ==
    LET sorted_files ==
            SortedByEstimate({p \in DOMAIN build_times_estimate :
                                build_times_estimate[p] > slow_file_micros},
                             build_times_estimate)
        slow_files == SubSeq(sorted_files, 1,
                             IF Len(sorted_files) < max_slow_files
                             THEN Len(sorted_files) ELSE max_slow_files)
    IN  [i \in 1..Len(slow_files) |->
            Suggestion("CODE_RESTRUCTURING", slow_files[i], "MEDIUM")]

SuggestCachingStrategies ==
    IF optimization_config.cache_compilation
    THEN <<Suggestion("CACHING_STRATEGY", "PROJECT", "MEDIUM")>> ELSE <<>>

\* _suggest_unified_headers asks for more than 5 forward declarations in a
\* header: the texts of the model hold none, and it appends nothing
GeneratedSuggestions(ord) ==
    SuggestForwardDeclarations(ord) \o SuggestPimplPattern(ord)
    \o SuggestBuildOptimizations \o SuggestCompilerSpecificOptimizations
    \o SuggestCodeRestructuring \o SuggestCachingStrategies

(***************************************************************************)
(* _estimate_build_times and _get_analysis_summary                         *)
(***************************************************************************)
estimated_suffixes == {".cpp", ".cc", ".cxx"}

\* the estimate with the penalty of the dependencies taken off the time
EstimatedTimeLessPenalty(lines, complexity, dependencies) ==
    lines * (100 + complexity) * (10 - dependencies)

\* lines * 0.001 * (1 + complexity * 0.01) * (1 + dependencies * 0.1)
\* seconds, in microseconds
EstimatedTime(lines, complexity, dependencies) ==
    lines * (100 + complexity) * (10 + dependencies)

RECURSIVE SumOver(_, _)
SumOver(f, S) ==
    IF S = {} THEN 0
    ELSE LET x == CHOOSE y \in S : TRUE
         IN  f[x] + SumOver(f, S \ {x})

\* sum(self.build_times_estimate.values())
TotalEstimatedBuildTime ==
    SumOver(build_times_estimate, DOMAIN build_times_estimate)

CountFiles(suffixes) == Cardinality({i \in 1..Len(files) : Suffix(files[i]) \in suffixes})

AnalysisSummary ==
    [total_files |-> Len(files),
     header_files |-> CountFiles({".h", ".hpp", ".hh"}),
     source_files |-> CountFiles({".cpp", ".cc", ".cxx"}),
     estimated_build_time |-> TotalEstimatedBuildTime,
     issues_found |-> Len(issues),
     suggestions |-> Len(suggestions),
     circular_deps |-> Len(circular_deps),
     unused_headers |-> Cardinality(unused_headers)]

(***************************************************************************)
(* analyze_project                                                         *)
(***************************************************************************)
\* a task that holds nothing
Idle == [at |-> "none", includes |-> <<>>, loaded |-> 0, resolved_path |-> None]

\* no step of the analysis of any file raises
NoFault == [p \in AllPaths |-> "none"]

\* analyze_project has not returned
NotReturned == EmptyDict

\* the analyzer __init__ has made
Constructed ==
    /\ suggestions = <<>>
    /\ file_complexity = EmptyDict
    /\ resolutions = <<>>
    /\ earlier_runs = <<>>
    /\ visited = {}
    /\ recursion_stack = {}
    /\ frames = <<>>
    /\ build_times_estimate = EmptyDict
    /\ result = NotReturned
    /\ files = <<>>
    /\ include_graph = [p \in AllPaths |-> {}]
    /\ dependency_count = [p \in AllPaths |-> 0]
    /\ file_sizes = EmptyDict
    /\ header_frequency = [n \in IncludeNames |-> 0]
    /\ circular_deps = <<>>
    /\ unused_headers = {}
    /\ issues = <<>>
    /\ analysed = {}
    /\ max_workers = 0
    /\ task = [p \in AllPaths |-> Idle]
    /\ overtime = {}
    /\ timeout_warnings = {}

Init ==
    /\ root = "directory"
    /\ disk = DiskFiles
    /\ scan_order = <<"build", "d", "e">>
    /\ ignore_patterns = {}
    /\ fault = NoFault
    /\ content \in Projects
    /\ analysis_config \in Configs
    /\ pc = "discover"
    /\ Constructed

Discover ==
    /\ pc = "discover"
    /\ files' = DiscoverFiles
    /\ IF analysis_config.parallel_analysis
       THEN /\ pc' = "parallel"
            /\ max_workers' \in 1..MaxCpu
            /\ task' = [p \in DiskFiles |->
                          IF \E i \in 1..Len(files') : files'[i] = p
                          THEN [Idle EXCEPT !.at = "queued"] ELSE Idle]
       ELSE /\ pc' = "sequential"
            /\ UNCHANGED <<max_workers, task>>
    /\ UNCHANGED <<world_vars, report_vars, analysis_vars, overtime, timeout_warnings>>

\* the turn of the loop without the two except clauses: what a file's
\* analysis raises leaves analyze_project
SequentialAnalyzeFileUncaught ==
    /\ pc = "sequential"
    /\ \E i \in 1..Len(files) :
         /\ files[i] \notin analysed
         /\ \A j \in 1..(i - 1) : files[j] \in analysed
         /\ LET st == TryAnalyzeFileIncludes(
                        AnalysisData(include_graph, dependency_count, file_sizes,
                                     header_frequency, issues),
                        files[i], content[files[i]], analysis_config, fault[files[i]])
            IN  /\ include_graph' = st.include_graph
                /\ dependency_count' = st.dependency_count
                /\ file_sizes' = st.file_sizes
                /\ header_frequency' = st.header_frequency
                /\ issues' = st.issues
         /\ IF fault[files[i]] = "none"
            THEN analysed' = analysed \cup {files[i]} /\ UNCHANGED pc
            ELSE pc' = "raised" /\ UNCHANGED analysed
    /\ UNCHANGED <<world_vars, report_vars, pool_vars, files, circular_deps, unused_headers>>

\* one turn of the loop of _sequential_analyze_files
SequentialAnalyzeFile ==
    /\ pc = "sequential"
    /\ \E i \in 1..Len(files) :
         /\ files[i] \notin analysed
         /\ \A j \in 1..(i - 1) : files[j] \in analysed
         /\ LET st == TryAnalyzeFileIncludes(
                        AnalysisData(include_graph, dependency_count, file_sizes,
                                     header_frequency, issues),
                        files[i], content[files[i]], analysis_config, fault[files[i]])
            IN  /\ include_graph' = st.include_graph
                /\ dependency_count' = st.dependency_count
                /\ file_sizes' = st.file_sizes
                /\ header_frequency' = st.header_frequency
                /\ issues' = st.issues
         /\ analysed' = analysed \cup {files[i]}
    /\ UNCHANGED <<world_vars, report_vars, pool_vars, pc, files, circular_deps, unused_headers>>

\* _sequential_analyze_files returns
SequentialDone ==
    /\ pc = "sequential"
    /\ \A i \in 1..Len(files) : files[i] \in analysed
    /\ pc' = "circular"
    /\ UNCHANGED <<world_vars, report_vars, pool_vars, analysis_vars, files>>

(***************************************************************************)
(* _parallel_analyze_files: every file is submitted to a pool of           *)
(* max_workers threads, which take the tasks in the order of submission.   *)
(* The threads may be switched between any two operations on the shared    *)
(* data: x[k] += 1 is a load of x[k] followed by a store.                  *)
(***************************************************************************)
Running == {p \in DiskFiles : task[p].at \notin {"none", "queued", "done"}}

\* the task goes on with the includes left, or with _detect_file_issues
NextInclude(t, includes, hf) ==
    IF includes = <<>>
    THEN [t EXCEPT !.at = "issues", !.includes = <<>>]
    ELSE [t EXCEPT !.at = "store_frequency", !.includes = includes,
                   !.loaded = hf[Head(includes)]]

\* a worker takes the task: the file is read, its size recorded, the
\* includes found, and the frequency of the first one loaded
TaskStart(f) ==
    /\ pc = "parallel"
    /\ task[f].at = "queued"
    /\ Cardinality(Running) < max_workers
    /\ \A g \in DiskFiles : SortKey(g) < SortKey(f) => task[g].at # "queued"
    /\ IF fault[f] = "open"
       THEN /\ task' = [task EXCEPT ![f] = [Idle EXCEPT !.at = "done"]]
            /\ analysed' = analysed \cup {f}
            /\ UNCHANGED file_sizes
       ELSE /\ file_sizes' = SetItem(file_sizes, f, ContentLen(content[f]))
            /\ task' = [task EXCEPT ![f] =
                          NextInclude(@, IncludePatternFindall(content[f]), header_frequency)]
            /\ UNCHANGED analysed
    /\ UNCHANGED <<world_vars, report_vars, pc, files, include_graph, dependency_count,
                   header_frequency, circular_deps, unused_headers, issues,
                   max_workers, overtime, timeout_warnings>>

\* self.header_frequency[included] += 1, the store
TaskStoreFrequency(f) ==
    /\ pc = "parallel"
    /\ task[f].at = "store_frequency"
    /\ header_frequency' =
         [header_frequency EXCEPT ![Head(task[f].includes)] = task[f].loaded + 1]
    /\ task' = [task EXCEPT ![f].at = "resolve"]
    /\ UNCHANGED <<world_vars, report_vars, pc, files, include_graph, dependency_count, file_sizes,
                   circular_deps, unused_headers, issues, analysed,
                   max_workers, overtime, timeout_warnings>>

\* the include is resolved; the edge is added and the count of the target loaded
TaskResolve(f) ==
    /\ pc = "parallel"
    /\ task[f].at = "resolve"
    /\ LET resolved_path == ResolveIncludePath(f, Head(task[f].includes))
       IN  IF fault[f] = "resolve"
           THEN /\ task' = [task EXCEPT ![f] = [Idle EXCEPT !.at = "done"]]
                /\ analysed' = analysed \cup {f}
                /\ UNCHANGED include_graph
           ELSE IF resolved_path # None
           THEN /\ include_graph' = [include_graph EXCEPT ![f] = @ \cup {resolved_path}]
                /\ task' = [task EXCEPT ![f].at = "store_count",
                                        ![f].resolved_path = resolved_path,
                                        ![f].loaded = dependency_count[resolved_path]]
                /\ UNCHANGED analysed
           ELSE /\ task' = [task EXCEPT ![f] =
                              NextInclude(@, Tail(task[f].includes), header_frequency)]
                /\ UNCHANGED <<include_graph, analysed>>
    /\ UNCHANGED <<world_vars, report_vars, pc, files, dependency_count, file_sizes, header_frequency,
                   circular_deps, unused_headers, issues,
                   max_workers, overtime, timeout_warnings>>

\* self.dependency_count[resolved_path] += 1, the store
TaskStoreCount(f) ==
    /\ pc = "parallel"
    /\ task[f].at = "store_count"
    /\ dependency_count' =
         [dependency_count EXCEPT ![task[f].resolved_path] = task[f].loaded + 1]
    /\ task' = [task EXCEPT ![f] =
                  NextInclude([@ EXCEPT !.resolved_path = None, !.loaded = 0],
                              Tail(task[f].includes), header_frequency)]
    /\ UNCHANGED <<world_vars, report_vars, pc, files, include_graph, file_sizes, header_frequency,
                   circular_deps, unused_headers, issues, analysed,
                   max_workers, overtime, timeout_warnings>>

\* _detect_file_issues, and the task returns
TaskDetectIssues(f) ==
    /\ pc = "parallel"
    /\ task[f].at = "issues"
    /\ issues' = IF fault[f] = "issues" THEN issues
                  ELSE issues \o DetectFileIssues(f, content[f], analysis_config)
    /\ task' = [task EXCEPT ![f] = [Idle EXCEPT !.at = "done"]]
    /\ analysed' = analysed \cup {f}
    /\ UNCHANGED <<world_vars, report_vars, pc, files, include_graph, dependency_count, file_sizes,
                   header_frequency, circular_deps, unused_headers,
                   max_workers, overtime, timeout_warnings>>

\* analysis_timeout seconds pass since a running task was taken
TaskOvertime(f) ==
    /\ pc = "parallel"
    /\ f \in Running
    /\ f \notin overtime
    /\ Cardinality(overtime) < MaxOvertime
    /\ overtime' = overtime \cup {f}
    /\ UNCHANGED <<world_vars, report_vars, analysis_vars, pc, files, max_workers, task, timeout_warnings>>

\* _parallel_analyze_files returning without waiting for the workers
ParallelDoneWithoutWaiting ==
    /\ pc = "parallel"
    /\ pc' = "circular"
    /\ UNCHANGED <<world_vars, report_vars, pool_vars, analysis_vars, files>>

\* _parallel_analyze_files returning with the first future that finishes,
\* the executor shut down without waiting for the others
ParallelDoneAtFirstFuture ==
    /\ pc = "parallel"
    /\ files # <<>> => \E i \in 1..Len(files) : task[files[i]].at = "done"
    /\ pc' = "circular"
    /\ UNCHANGED <<world_vars, report_vars, pool_vars, analysis_vars, files>>

\* future.result(timeout), called on a future as_completed has yielded
FutureResult(f) == IF task[f].at = "done" THEN "returned" ELSE "TimeoutError"

\* the loop over as_completed, which waits for every future to finish and
\* yields finished futures only; then the executor is shut down
ParallelDone ==
    /\ pc = "parallel"
    /\ \A i \in 1..Len(files) : task[files[i]].at = "done"
    /\ timeout_warnings' =
         timeout_warnings \cup
           {files[i] : i \in {j \in 1..Len(files) : FutureResult(files[j]) = "TimeoutError"}}
    /\ pc' = "circular"
    /\ UNCHANGED <<world_vars, report_vars, analysis_vars, files, max_workers, task, overtime>>

CircularCheck ==
    /\ pc = "circular"
    /\ IF analysis_config.enable_circular_dep_check
       THEN \E ord \in HashOrders :
              LET d == DetectCircularDependencies(files, include_graph, circular_deps, ord)
              IN  /\ circular_deps' = d.circular_deps
                  /\ issues' = issues \o CircularIssues(d.circular_deps)
       ELSE UNCHANGED <<circular_deps, issues>>
    /\ pc' = "unused"
    /\ UNCHANGED <<world_vars, report_vars, pool_vars, files, include_graph, dependency_count,
                   file_sizes, header_frequency, unused_headers, analysed>>

UnusedCheck ==
    /\ pc = "unused"
    /\ IF analysis_config.enable_unused_header_check
       THEN \E ord \in HashOrders :
              /\ unused_headers' = DetectUnusedHeaders(files, include_graph)
              /\ issues' = issues \o UnusedIssues(unused_headers', ord)
       ELSE UNCHANGED <<unused_headers, issues>>
    /\ pc' = "checked"
    /\ UNCHANGED <<world_vars, report_vars, pool_vars, files, include_graph, dependency_count,
                   file_sizes, header_frequency, circular_deps, analysed>>

\* _analyze_template_usage counts the templates of the texts, which hold
\* none, and generate_suggestions appends the suggestions
GenerateSuggestions ==
    /\ pc = "checked"
    /\ \E ord \in HashOrders : suggestions' = suggestions \o GeneratedSuggestions(ord)
    /\ pc' = "suggested"
    /\ UNCHANGED <<world_vars, dfs_vars, pool_vars, analysis_vars, files, file_complexity,
                   resolutions, earlier_runs, build_times_estimate, result>>

EstimateBuildTimes ==
    /\ pc = "suggested"
    /\ build_times_estimate' =
         LET source_files == {p \in {files[i] : i \in 1..Len(files)} :
                                Suffix(p) \in estimated_suffixes}
         IN  [p \in DOMAIN build_times_estimate \cup source_files |->
                IF p \in source_files
                THEN IF fault[p] = "open" THEN 0
                     ELSE EstimatedTime(LineCount(content[p]),
                                        CalculateComplexity(content[p], analysis_config),
                                        Cardinality(include_graph[p]))
                ELSE build_times_estimate[p]]
    /\ pc' = "estimated"
    /\ UNCHANGED <<world_vars, dfs_vars, pool_vars, analysis_vars, files, suggestions,
                   file_complexity, resolutions, earlier_runs, result>>

\* return self._get_analysis_summary()
Return ==
    /\ pc = "estimated"
    /\ result' = AnalysisSummary
    /\ pc' = "returned"
    /\ UNCHANGED <<world_vars, dfs_vars, pool_vars, analysis_vars, files, suggestions,
                   file_complexity, resolutions, earlier_runs, build_times_estimate>>

\* generate_report with format json, which main calls when analyze_project
\* has returned: the complexity of every file is computed from its text; a
\* file that cannot be opened raises, and main returns 1
GenerateReport ==
    /\ pc = "returned"
    /\ IF \E i \in 1..Len(files) : fault[files[i]] = "open"
       THEN pc' = "exit_1" /\ UNCHANGED file_complexity
       ELSE /\ file_complexity' =
                 [f \in {files[i] : i \in 1..Len(files)} |->
                    CalculateComplexity(content[f], analysis_config)]
            /\ pc' = "reported"
    /\ UNCHANGED <<world_vars, dfs_vars, pool_vars, analysis_vars, files, suggestions,
                   resolutions, earlier_runs, build_times_estimate, result>>

Next ==
    \/ Discover
    \/ SequentialAnalyzeFile
    \/ SequentialDone
    \/ \E f \in DiskFiles : TaskStart(f)
    \/ \E f \in DiskFiles : TaskStoreFrequency(f)
    \/ \E f \in DiskFiles : TaskResolve(f)
    \/ \E f \in DiskFiles : TaskStoreCount(f)
    \/ \E f \in DiskFiles : TaskDetectIssues(f)
    \/ ParallelDone
    \/ CircularCheck
    \/ UnusedCheck
    \/ GenerateSuggestions
    \/ EstimateBuildTimes
    \/ Return

Spec == Init /\ [][Next]_vars

\* the run, with the time the analyses take observed
NextTimed ==
    \/ Next
    \/ \E f \in DiskFiles : TaskOvertime(f)

SpecTimed == Init /\ [][NextTimed]_vars

(***************************************************************************)
(* main: the run of the command on a project path that holds a directory,  *)
(* a directory that cannot be listed, or nothing.                          *)
(***************************************************************************)
Roots == {"directory", "unreadable", "missing"}

\* main up to the call of analyze_project
Main ==
    /\ pc = "main"
    /\ pc' = IF root = "missing" THEN "exit_1" ELSE "discover"
    /\ UNCHANGED <<world_vars, report_vars, pool_vars, analysis_vars, files>>

InitMain ==
    /\ root \in Roots
    /\ disk = (IF root = "missing" THEN {} ELSE DiskFiles)
    /\ scan_order = <<"build", "d", "e">>
    /\ ignore_patterns = {}
    /\ fault = NoFault
    /\ content \in Projects
    /\ analysis_config \in Configs
    /\ pc = "main"
    /\ Constructed

NextMain ==
    \/ Main
    \/ Next

SpecMain == InitMain /\ [][NextMain]_vars

(***************************************************************************)
(* Sequential runs on other project trees: a tree holds some of the files  *)
(* of Paths, a file has no line or one quoted include, and the user may    *)
(* have given ignore patterns.                                             *)
(***************************************************************************)
Trees == {tree \in SUBSET AllPaths : Cardinality(tree) <= MaxDiskFiles}

TreeTexts == {<<>>} \cup {<<QuoteInclude(n)>> : n \in IncludeNames}

InitTrees ==
    /\ root = "directory"
    /\ disk \in Trees
    /\ scan_order = <<"build", "d", "e">>
    /\ ignore_patterns \in SUBSET UserPatterns
    /\ fault = NoFault
    /\ content \in [disk -> TreeTexts]
    /\ analysis_config \in {cfg \in Configs : ~cfg.parallel_analysis}
    /\ pc = "discover"
    /\ Constructed

NextSequential ==
    \/ Discover
    \/ SequentialAnalyzeFile
    \/ SequentialDone
    \/ CircularCheck
    \/ UnusedCheck
    \/ GenerateSuggestions
    \/ EstimateBuildTimes
    \/ Return

SpecTrees == InitTrees /\ [][NextSequential]_vars

(***************************************************************************)
(* Runs on a project of one source file, whose text holds the lines the    *)
(* complexity score tells apart, with template analysis on or off, up to   *)
(* the JSON report.                                                        *)
(***************************************************************************)
ScoredTexts == UNION {[1..k -> ScoredLines] : k \in 0..MaxScoredLines}

InitComplexity ==
    /\ root = "directory"
    /\ disk = {"d/c.cpp"}
    /\ scan_order = <<"build", "d", "e">>
    /\ ignore_patterns = {}
    /\ fault = NoFault
    /\ content \in [disk -> ScoredTexts]
    /\ analysis_config \in
         {[cfg EXCEPT !.enable_template_analysis = enabled] :
            cfg \in {c \in Configs : ~c.parallel_analysis}, enabled \in BOOLEAN}
    /\ pc = "discover"
    /\ Constructed

NextComplexity ==
    \/ NextSequential
    \/ GenerateReport

SpecComplexity == InitComplexity /\ [][NextComplexity]_vars

(***************************************************************************)
(* Calls of _resolve_include_path on a tree that does not change, whatever *)
(* the order in which the file system lists its directories.               *)
(***************************************************************************)
ResolveIncludePathCall(source_file, include_name) ==
    /\ Len(resolutions) < MaxCalls
    /\ resolutions' = Append(resolutions,
                             [source_file |-> source_file, include_name |-> include_name,
                              resolved_path |-> ResolveIncludePath(source_file, include_name)])
    /\ UNCHANGED <<world_vars, dfs_vars, pool_vars, analysis_vars, pc, files, suggestions,
                   file_complexity, earlier_runs, build_times_estimate, result>>

InitResolve ==
    /\ root = "directory"
    /\ disk \in Trees
    /\ scan_order \in Perms(Directories)
    /\ ignore_patterns = {}
    /\ fault = NoFault
    /\ content \in [disk -> {<<>>}]
    /\ analysis_config \in {cfg \in Configs : ~cfg.parallel_analysis}
    /\ pc = "sequential"
    /\ Constructed

NextResolve ==
    \E source_file \in disk, include_name \in IncludeNames :
       ResolveIncludePathCall(source_file, include_name)

SpecResolve == InitResolve /\ [][NextResolve]_vars

(***************************************************************************)
(* Calls of analyze_project on the same analyzer, one after the other, on  *)
(* a tree that does not change.  The source file may hold a long stretch   *)
(* of code, which takes its estimate over the second _suggest_code_        *)
(* restructuring asks for.                                                 *)
(***************************************************************************)
\* the analysis data a call of analyze_project leaves in the analyzer
LeftByRun ==
    [issues |-> issues, suggestions |-> suggestions, circular_deps |-> circular_deps,
     header_frequency |-> header_frequency, dependency_count |-> dependency_count]

\* analyze_project is called again: nothing of the analyzer is reset, and
\* the loops of the per-file pass start over
AnalyzeProjectAgain ==
    /\ pc = "returned"
    /\ Len(earlier_runs) < MaxReruns
    /\ earlier_runs' = Append(earlier_runs, LeftByRun)
    /\ analysed' = {}
    /\ pc' = "discover"
    /\ UNCHANGED <<world_vars, dfs_vars, pool_vars, files, include_graph, dependency_count,
                   file_sizes, header_frequency, circular_deps, unused_headers, issues,
                   suggestions, file_complexity, resolutions, build_times_estimate,
                   result>>

HeaderTexts == {<<>>, <<QuoteInclude("a.h")>>}

SourceTexts ==
    {<<>>, <<QuoteInclude("a.h")>>, <<Block>>, <<QuoteInclude("a.h"), Block>>}

InitRerun ==
    /\ root = "directory"
    /\ disk = DiskFiles
    /\ scan_order = <<"build", "d", "e">>
    /\ ignore_patterns = {}
    /\ fault = NoFault
    /\ content \in {c \in [disk -> HeaderTexts \cup SourceTexts] :
                      \A p \in disk : Suffix(p) # ".cpp" => c[p] \in HeaderTexts}
    /\ analysis_config \in {cfg \in Configs : ~cfg.parallel_analysis}
    /\ pc = "discover"
    /\ Constructed

NextRerun ==
    \/ NextSequential
    \/ AnalyzeProjectAgain

SpecRerun == InitRerun /\ [][NextRerun]_vars

(***************************************************************************)
(* Runs, sequential and parallel, on projects whose files hold no line,    *)
(* one include or two: a file of two includes is over every threshold.     *)
(***************************************************************************)
IssueTexts ==
    {<<>>, <<QuoteInclude("a.h")>>, <<QuoteInclude("a.h"), QuoteInclude("a.h")>>}

InitIssues ==
    /\ root = "directory"
    /\ disk = DiskFiles
    /\ scan_order = <<"build", "d", "e">>
    /\ ignore_patterns = {}
    /\ fault = NoFault
    /\ content \in [disk -> IssueTexts]
    /\ analysis_config \in Configs
    /\ pc = "discover"
    /\ Constructed

SpecIssues == InitIssues /\ [][Next]_vars

\* the same runs, with the time the analyses take observed
SpecIssuesTimed == InitIssues /\ [][NextTimed]_vars

(***************************************************************************)
(* Runs in which the analysis of one file fails.                           *)
(***************************************************************************)
\* one step of the analysis of one file raises
OneFault == {[NoFault EXCEPT ![p] = raises] : p \in DiskFiles, raises \in Faults}

InitFaulty ==
    /\ root = "directory"
    /\ disk = DiskFiles
    /\ scan_order = <<"build", "d", "e">>
    /\ ignore_patterns = {}
    /\ fault \in OneFault
    /\ content \in Projects
    /\ analysis_config \in Configs
    /\ pc = "discover"
    /\ Constructed

SpecFaulty == InitFaulty /\ [][Next]_vars

(***************************************************************************)
(* The graph-level checks on any dependency graph.  The per-file pass      *)
(* gives a file at most one edge; _detect_circular_dependencies and        *)
(* _detect_unused_headers read self.include_graph whatever filled it.      *)
(***************************************************************************)
\* the graphs over the files of the tree with at most MaxEdges edges
Graphs ==
    {g \in [DiskFiles -> SUBSET DiskFiles] :
        Cardinality({e \in DiskFiles \X DiskFiles : e[2] \in g[e[1]]}) <= MaxEdges}

\* the analyzer after the per-file pass, holding some dependency graph
InitGraphs ==
    /\ root = "directory"
    /\ disk = DiskFiles
    /\ scan_order = <<"build", "d", "e">>
    /\ ignore_patterns = {}
    /\ fault = NoFault
    /\ suggestions = <<>>
    /\ file_complexity = EmptyDict
    /\ resolutions = <<>>
    /\ earlier_runs = <<>>
    /\ visited = {}
    /\ recursion_stack = {}
    /\ frames = <<>>
    /\ build_times_estimate = EmptyDict
    /\ result = NotReturned
    /\ content = [p \in DiskFiles |-> <<>>]
    /\ analysis_config \in {cfg \in Configs : ~cfg.parallel_analysis}
    /\ pc = "circular"
    /\ files = DiscoverFiles
    /\ include_graph \in Graphs
    /\ dependency_count =
         [p \in DiskFiles |-> Cardinality({f \in DiskFiles : p \in include_graph[f]})]
    /\ file_sizes = [p \in DiskFiles |-> 0]
    /\ header_frequency = [n \in IncludeNames |-> 0]
    /\ circular_deps = <<>>
    /\ unused_headers = {}
    /\ issues = <<>>
    /\ analysed = DiskFiles
    /\ max_workers = 0
    /\ task = [p \in DiskFiles |-> Idle]
    /\ overtime = {}
    /\ timeout_warnings = {}

NextGraphs ==
    \/ CircularCheck
    \/ UnusedCheck

SpecGraphs == InitGraphs /\ [][NextGraphs]_vars

(***************************************************************************)
(* _detect_circular_dependencies call by call, on projects whose headers   *)
(* h0001.h, h0002.h, ... each include the next one, the last one including *)
(* nothing (a chain) or the first (a ring).  dfs calls itself for every    *)
(* dependency, and the interpreter raises RecursionError on a call that    *)
(* would take the stack over its limit.                                    *)
(***************************************************************************)
\* sys.getrecursionlimit(), which the program leaves at its default
recursion_limit == 1000

ChainLengths == {1, 2, 3, MaxChain}

\* the edges the per-file pass leaves for a chain or a ring of n headers
ChainGraph(n, ring) ==
    [p \in {ChainFile(i) : i \in 1..n} |->
        LET i == CHOOSE k \in 1..n : ChainFile(k) = p
        IN  IF i < n THEN {ChainFile(i + 1)} ELSE IF ring THEN {ChainFile(1)} ELSE {}]

\* a call of dfs that has not returned, or the loop over self.files
Frame(file_path, dependencies) == [file_path |-> file_path, dependencies |-> dependencies]

\* the calls of dfs that have not returned
DfsDepth == Len(frames) - 1

\* _detect_circular_dependencies is entered
DetectStart ==
    /\ pc = "circular"
    /\ IF analysis_config.enable_circular_dep_check
       THEN /\ visited' = {}
            /\ recursion_stack' = {}
            /\ frames' = <<Frame(None, files)>>
            /\ pc' = "dfs"
       ELSE /\ pc' = "unused"
            /\ UNCHANGED dfs_vars
    /\ UNCHANGED <<world_vars, pool_vars, analysis_vars, files, suggestions,
                   file_complexity, resolutions, earlier_runs, build_times_estimate,
                   result>>

\* dfs is called for the next dependency of the innermost call, or for the
\* next file of self.files
DfsCall ==
    /\ pc = "dfs"
    /\ frames # <<>>
    /\ frames[Len(frames)].dependencies # <<>>
    /\ DfsDepth < recursion_limit
    /\ LET file_path == Head(frames[Len(frames)].dependencies)
           caller == [frames EXCEPT ![Len(frames)].dependencies = Tail(@)]
       IN  IF file_path \in recursion_stack
           THEN /\ \E stack \in Perms(recursion_stack) :
                     LET cycle_start == IndexOf(stack, file_path)
                         cycle == SubSeq(stack, cycle_start, Len(stack))
                     IN  circular_deps' = Append(circular_deps, cycle)
                /\ frames' = caller
                /\ UNCHANGED <<visited, recursion_stack>>
           ELSE IF file_path \in visited
           THEN /\ frames' = caller
                /\ UNCHANGED <<visited, recursion_stack, circular_deps>>
           ELSE /\ visited' = visited \cup {file_path}
                /\ recursion_stack' = recursion_stack \cup {file_path}
                /\ \E dependencies \in Perms(include_graph[file_path]) :
                     frames' = Append(caller, Frame(file_path, dependencies))
                /\ UNCHANGED circular_deps
    /\ UNCHANGED <<world_vars, pool_vars, pc, files, include_graph, dependency_count,
                   file_sizes, header_frequency, unused_headers, issues, analysed,
                   suggestions, file_complexity, resolutions, earlier_runs,
                   build_times_estimate, result>>

\* the call of dfs would take the stack over the limit: RecursionError
\* leaves _detect_circular_dependencies and analyze_project
DfsRaise ==
    /\ pc = "dfs"
    /\ frames # <<>>
    /\ frames[Len(frames)].dependencies # <<>>
    /\ DfsDepth >= recursion_limit
    /\ pc' = "raised"
    /\ UNCHANGED <<world_vars, report_vars, pool_vars, analysis_vars, files>>

\* the innermost call of dfs has gone through its dependencies and returns
DfsReturn ==
    /\ pc = "dfs"
    /\ Len(frames) > 1
    /\ frames[Len(frames)].dependencies = <<>>
    /\ recursion_stack' = recursion_stack \ {frames[Len(frames)].file_path}
    /\ frames' = SubSeq(frames, 1, Len(frames) - 1)
    /\ UNCHANGED <<world_vars, pool_vars, analysis_vars, pc, files, visited, suggestions,
                   file_complexity, resolutions, earlier_runs, build_times_estimate,
                   result>>

\* the loop over self.files is over: an issue is appended for every cycle
DetectEnd ==
    /\ pc = "dfs"
    /\ Len(frames) = 1
    /\ frames[1].dependencies = <<>>
    /\ frames' = <<>>
    /\ issues' = issues \o CircularIssues(circular_deps)
    /\ pc' = "unused"
    /\ UNCHANGED <<world_vars, pool_vars, files, include_graph, dependency_count,
                   file_sizes, header_frequency, circular_deps, unused_headers, analysed,
                   visited, recursion_stack, suggestions, file_complexity, resolutions,
                   earlier_runs, build_times_estimate, result>>

\* the analyzer after the per-file pass over a chain or a ring of headers
InitDeep ==
    /\ root = "directory"
    /\ \E n \in ChainLengths, ring \in BOOLEAN :
         /\ disk = {ChainFile(i) : i \in 1..n}
         /\ files = [i \in 1..n |-> ChainFile(i)]
         /\ include_graph = ChainGraph(n, ring)
         /\ content = [p \in disk |->
                          IF include_graph[p] = {} THEN <<>>
                          ELSE <<QuoteInclude(CHOOSE t \in include_graph[p] : TRUE)>>]
    /\ scan_order = <<"build", "d", "e">>
    /\ ignore_patterns = {}
    /\ fault = NoFault
    /\ analysis_config \in {cfg \in Configs : ~cfg.parallel_analysis}
    /\ pc = "circular"
    /\ dependency_count = [p \in disk |-> IF \E f \in disk : p \in include_graph[f] THEN 1 ELSE 0]
    /\ file_sizes = [p \in disk |-> ContentLen(content[p])]
    /\ header_frequency = [p \in disk |-> IF \E f \in disk : p \in include_graph[f] THEN 1 ELSE 0]
    /\ circular_deps = <<>>
    /\ unused_headers = {}
    /\ issues = <<>>
    /\ analysed = disk
    /\ max_workers = 0
    /\ task = [p \in AllPaths |-> Idle]
    /\ overtime = {}
    /\ timeout_warnings = {}
    /\ suggestions = <<>>
    /\ file_complexity = EmptyDict
    /\ resolutions = <<>>
    /\ earlier_runs = <<>>
    /\ visited = {}
    /\ recursion_stack = {}
    /\ frames = <<>>
    /\ build_times_estimate = EmptyDict
    /\ result = NotReturned

NextDeep ==
    \/ DetectStart
    \/ DfsCall
    \/ DfsRaise
    \/ DfsReturn
    \/ DetectEnd

SpecDeep == InitDeep /\ [][NextDeep]_vars

(***************************************************************************)
(* The properties.                                                         *)
(***************************************************************************)
Edges(graph) == {e \in DiskFiles \X DiskFiles : e[2] \in graph[e[1]]}

Catalog == {files[i] : i \in 1..Len(files)}

\* the per-file pass is over
PassDone == pc \in {"circular", "unused", "checked", "suggested", "estimated", "returned"}

IncludeCount(f) == Cardinality({i \in 1..Len(content[f]) : IsInclude(content[f][i])})

IssuesOf(type, f) == {i \in 1..Len(issues) : issues[i].type = type /\ issues[i].file = f}

IssuesOfType(type) == {i \in 1..Len(issues) : issues[i].type = type}

\* C1: after the per-file pass the dependency graph holds the edge file -> T
\* for every line of a catalog file, the first or a later one, that is a
\* quoted include whose name resolves to the project file T.
QuotedIncludeEdges ==
    {e \in Catalog \X DiskFiles :
        \E i \in 1..Len(content[e[1]]) :
           /\ content[e[1]][i].kind = "quote"
           /\ ResolveIncludePath(e[1], content[e[1]][i].name) = e[2]}

C1_QuotedIncludesYieldEdges == PassDone => QuotedIncludeEdges \subseteq Edges(include_graph)

\* C2: an angle-bracket include never adds an edge nor a reverse-dependency
\* count: a file without a quoted include has no outgoing edge, and in a
\* project without quoted includes every count stays 0.
HasQuotedInclude(f) == \E i \in 1..Len(content[f]) : content[f][i].kind = "quote"

C2_AngleIncludeAddsNoEdge ==
    /\ \A f \in DiskFiles : ~HasQuotedInclude(f) => include_graph[f] = {}
    /\ (\A f \in DiskFiles : ~HasQuotedInclude(f)) =>
          \A t \in DiskFiles : dependency_count[t] = 0

\* C3: when two headers include each other and the graph has no other edge,
\* cycle detection reports exactly one cycle and one CircularDependency
\* issue, and the cycle has length 2 and holds both headers.
MutualPair(x, y) == x # y /\ Edges(include_graph) = {<<x, y>>, <<y, x>>}

C3_MutualPairIsOneCycleOfTwo ==
    \A x, y \in DiskFiles :
       (pc \in {"unused", "checked"} /\ MutualPair(x, y)) =>
          /\ Len(circular_deps) = 1
          /\ Cardinality(IssuesOfType("CIRCULAR_DEPENDENCY")) = 1
          /\ Len(circular_deps[1]) = 2
          /\ {circular_deps[1][i] : i \in 1..Len(circular_deps[1])} = {x, y}

\* C4: after the per-file pass a file has exactly one ExcessiveIncludes issue,
\* of severity Medium, if it has more include directives than
\* max_header_includes, and none otherwise (none at the threshold itself).
C4_ExcessiveIncludesIffOverThreshold ==
    PassDone =>
      \A f \in Catalog :
         /\ Cardinality(IssuesOf("EXCESSIVE_INCLUDES", f)) =
              (IF IncludeCount(f) > analysis_config.max_header_includes THEN 1 ELSE 0)
         /\ \A i \in IssuesOf("EXCESSIVE_INCLUDES", f) : issues[i].severity = "MEDIUM"

C4_Witness ==
    /\ PassDone
    /\ \E f \in Catalog :
         /\ IncludeCount(f) > analysis_config.max_header_includes
         /\ Cardinality(IssuesOf("EXCESSIVE_INCLUDES", f)) = 1

\* C5: once the edges are added, the reverse-dependency count of a file is
\* the number of distinct files that have an edge to it.
FanIn(t) == Cardinality({f \in DiskFiles : t \in include_graph[f]})

C5_CountIsFanIn == PassDone => \A t \in DiskFiles : dependency_count[t] = FanIn(t)

\* C6: the per-file phase ends, in parallel mode under every interleaving of
\* the workers as in sequential mode, with the set of edges and the set of
\* issues of a sequential pass over the catalog.
RECURSIVE SequentialPass(_, _)
SequentialPass(st, fs) ==
    IF fs = <<>> THEN st
    ELSE SequentialPass(TryAnalyzeFileIncludes(st, Head(fs), content[Head(fs)],
                                               analysis_config, fault[Head(fs)]),
                        Tail(fs))

SequentialResult ==
    SequentialPass(AnalysisData([p \in DiskFiles |-> {}], [p \in DiskFiles |-> 0],
                                EmptyDict, [n \in IncludeNames |-> 0],
                                <<>>),
                   DiscoverFiles)

C6_ParallelAsSequential ==
    pc = "circular" =>
      /\ Edges(include_graph) = Edges(SequentialResult.include_graph)
      /\ {issues[i] : i \in 1..Len(issues)} =
           {SequentialResult.issues[i] : i \in 1..Len(SequentialResult.issues)}

C6_Witness ==
    /\ pc = "circular"
    /\ analysis_config.parallel_analysis
    /\ max_workers > 1
    /\ Cardinality(Edges(include_graph)) >= 2

\* C7: in parallel mode a file whose analysis takes longer than
\* analysis_timeout is abandoned and reported as timed out, and the run goes
\* on to the graph-level checks.
C7_OvertimeIsReported ==
    PassDone => \A f \in overtime : f \in timeout_warnings /\ f \notin analysed

\* C8: a quoted include resolves to the first that exists of: the name next
\* to the including file, the name under the project root with "", .h, .hpp,
\* .hh, .hxx appended, a file found by a recursive search; so a file next to
\* the including file (another file than the including one) wins over one of
\* the same name elsewhere.
RECURSIVE RootCandidate(_, _)
RootCandidate(n, i) ==
    IF i > Len(search_extensions) THEN None
    ELSE IF Exists(JoinPath("", n \o search_extensions[i]))
         THEN JoinPath("", n \o search_extensions[i])
         ELSE RootCandidate(n, i + 1)

OrderedTarget(source_file, n) ==
    IF Exists(JoinPath(Parent(source_file), n)) THEN JoinPath(Parent(source_file), n)
    ELSE IF RootCandidate(n, 1) # None THEN RootCandidate(n, 1)
    ELSE RGlobFirst(n, 1)

C8_SiblingResolvedFirst ==
    \A f \in analysed : \A n \in IncludeNames :
       (content[f] = <<QuoteInclude(n)>> /\ OrderedTarget(f, n) # f) =>
          include_graph[f] = {OrderedTarget(f, n)} \ {None}

\* C9: after unused-header detection every header of the catalog, whatever
\* its header extension, has exactly one UnusedHeader issue of severity Low
\* if no edge of the graph points at it, and none otherwise.
C9_UnusedIssueIffNoIncomingEdge ==
    pc = "checked" =>
      \A h \in Catalog :
         Suffix(h) \in header_extensions =>
            /\ Cardinality(IssuesOf("UNUSED_HEADER", h)) =
                 (IF h \in IncludedHeaders(include_graph) THEN 0 ELSE 1)
            /\ \A i \in IssuesOf("UNUSED_HEADER", h) : issues[i].severity = "LOW"

\* C10: after unused-header detection no unused header is the target of an
\* edge of the dependency graph.
C10_UnusedDisjointFromTargets ==
    pc = "checked" => unused_headers \cap IncludedHeaders(include_graph) = {}

C10_Witness ==
    /\ pc = "checked"
    /\ unused_headers # {}
    /\ IncludedHeaders(include_graph) # {}
    /\ \E f \in DiskFiles : include_graph[f] # {} /\ Suffix(f) \in unused_check_suffixes

\* C11: cycle detection on a dependency graph that has no cycle leaves the
\* cycle list empty and appends no CircularDependency issue, whatever the
\* number of files and the sharing of common dependencies (diamonds).
RECURSIVE ReachableFrom(_, _)
ReachableFrom(S, graph) ==
    LET more == S \cup UNION {graph[p] : p \in S}
    IN  IF more = S THEN S ELSE ReachableFrom(more, graph)

HasCycle(graph) == \E f \in DiskFiles : f \in ReachableFrom(graph[f], graph)

C11_NoCycleNoReport ==
    (pc \in {"unused", "checked"} /\ ~HasCycle(include_graph)) =>
       /\ circular_deps = <<>>
       /\ IssuesOfType("CIRCULAR_DEPENDENCY") = {}

\* a diamond: two files share a dependency, and a third includes both
C11_Witness ==
    /\ pc \in {"unused", "checked"}
    /\ ~HasCycle(include_graph)
    /\ \E top, left, right, bottom \in DiskFiles :
         /\ Cardinality({top, left, right, bottom}) = 4
         /\ include_graph[top] = {left, right}
         /\ include_graph[left] = {bottom}
         /\ include_graph[right] = {bottom}
    /\ circular_deps = <<>>

\* C12: a failure while analysing one file (the file cannot be read, include
\* resolution or issue detection raises) is confined to that file: the run
\* does not abort, every other file of the catalog is analysed, with the
\* edges and the issues of its own analysis recorded, and analyze_project
\* returns a result.
OwnTargets(f) ==
    LET includes == IncludePatternFindall(content[f])
    IN  {ResolveIncludePath(f, includes[i]) : i \in 1..Len(includes)} \ {None}

file_issue_types == {"EXCESSIVE_INCLUDES", "HIGH_COMPLEXITY", "LARGE_HEADER"}

OwnIssues(f) ==
    SelectSeq(issues, LAMBDA issue : issue.file = f /\ issue.type \in file_issue_types)

C12_FailureConfinedToFile ==
    /\ pc # "raised"
    /\ PassDone =>
         \A f \in Catalog :
            fault[f] = "none" =>
               /\ f \in analysed
               /\ f \in DOMAIN file_sizes
               /\ include_graph[f] = OwnTargets(f)
               /\ OwnIssues(f) = DetectFileIssues(f, content[f], analysis_config)
    /\ pc = "returned" => result = AnalysisSummary

\* an unreadable file, next to a file with an edge and an issue, in a run
\* that has returned
C12_Witness ==
    /\ pc = "returned"
    /\ result # NotReturned
    /\ \E f, g \in Catalog :
         /\ fault[f] = "open"
         /\ f \notin DOMAIN file_sizes
         /\ g # f
         /\ include_graph[g] # {}
         /\ OwnIssues(g) # <<>>

\* C13: when the root path is missing or cannot be read the run aborts at
\* once: no file is analysed, no issue and no suggestion is produced, and no
\* analysis result is returned.
C13_BadRootAborts ==
    root # "directory" =>
       /\ analysed = {}
       /\ issues = <<>>
       /\ suggestions = <<>>
       /\ result = NotReturned

\* C14: the build-time estimate of a source file is
\* lines * base_rate * (1 + complexity * 0.01) * (1 + outgoing edges * 0.1),
\* here in microseconds: 0 for a file of 0 lines, 0 for a file that cannot be
\* read, and non-decreasing in the line count, in the complexity and in the
\* number of outgoing edges when the other two are held fixed.
Estimated == pc \in {"estimated", "returned"}

C14_EstimateFormula ==
    /\ Estimated =>
         \A f \in DOMAIN build_times_estimate :
            /\ fault[f] = "open" => build_times_estimate[f] = 0
            /\ fault[f] # "open" =>
                  build_times_estimate[f] =
                     Len(content[f])
                     * (100 + CalculateComplexity(content[f], analysis_config))
                     * (10 + Cardinality(include_graph[f]))
            /\ Len(content[f]) = 0 => build_times_estimate[f] = 0
    /\ \A lines, dependencies \in 0..MaxTotalLines :
         \A complexity \in 0..(MaxComplexity + MaxTotalLines) :
            /\ EstimatedTime(lines, complexity, dependencies) >= 0
            /\ EstimatedTime(0, complexity, dependencies) = 0
            /\ EstimatedTime(lines + 1, complexity, dependencies)
                  >= EstimatedTime(lines, complexity, dependencies)
            /\ EstimatedTime(lines, complexity + 1, dependencies)
                  >= EstimatedTime(lines, complexity, dependencies)
            /\ EstimatedTime(lines, complexity, dependencies + 1)
                  >= EstimatedTime(lines, complexity, dependencies)

\* a source file of several lines with an outgoing edge and its estimate
C14_Witness ==
    /\ Estimated
    /\ \E f \in DOMAIN build_times_estimate :
         /\ Len(content[f]) > 1
         /\ include_graph[f] # {}
         /\ build_times_estimate[f] > 0

\* C15: after build-time estimation every source file of the catalog (.cpp,
\* .cc, .cxx, .c++, .C) has a per-file estimate and no header has one, and
\* the aggregate estimate of the summary is the sum of the per-file estimates
\* of the source files.
SourceFiles == {f \in Catalog : Suffix(f) \in cpp_extensions}

C15_EverySourceFileEstimated ==
    /\ Estimated => DOMAIN build_times_estimate = SourceFiles
    /\ pc = "returned" =>
         /\ SourceFiles \subseteq DOMAIN build_times_estimate
         /\ result.estimated_build_time = SumOver(build_times_estimate, SourceFiles)

\* C16: after the per-file pass the header frequency of every include name n
\* is the number of analysed files that hold an include directive naming n,
\* resolved or not, quoted or in angle brackets; and a file whose includes
\* are all unresolved has no edge.
IncludingFiles(n) ==
    {f \in Catalog : \E i \in 1..Len(content[f]) :
                        IsInclude(content[f][i]) /\ content[f][i].name = n}

C16_FrequencyCountsIncludingFiles ==
    PassDone =>
       /\ \A n \in IncludeNames : header_frequency[n] = Cardinality(IncludingFiles(n))
       /\ \A f \in Catalog :
             (\A i \in 1..Len(content[f]) :
                 IsInclude(content[f][i]) =>
                    ResolveIncludePath(f, content[f][i].name) = None)
             => include_graph[f] = {}

\* C17: in every reachable state both endpoints of every edge of the
\* dependency graph are files of the catalog: an include that resolves to a
\* file on disk which is not in the catalog (ignored by a pattern, or without
\* a recognized extension) adds no edge.
C17_EdgesWithinCatalog ==
    \A f \in DOMAIN include_graph :
       \A t \in include_graph[f] : f \in Catalog /\ t \in Catalog

\* C18: discover_files returns, sorted by path and without duplicates, the
\* files under the root that have a recognized source or header extension
\* and whose relative path matches no ignore pattern, of the defaults or of
\* the user; so no file in a directory the defaults name, such as build/, is
\* in the catalog.
Discovered == pc \notin {"main", "exit_1", "discover"}

C18_CatalogSortedAndFiltered ==
    Discovered =>
       /\ \A i, j \in 1..Len(files) : i < j => SortKey(files[i]) < SortKey(files[j])
       /\ Catalog = {p \in disk : /\ Suffix(p) \in cpp_extensions \cup header_extensions
                                  /\ ~ShouldIgnoreFile(p)}
       /\ \A f \in Catalog : (Parent(f) \o "/") \notin default_ignore_patterns

\* C19: for every text and every configuration the complexity score is the
\* non-negative integer 3*T + 2*S + I + 2*C + F + 0.5*M truncated toward
\* zero, for the counts T of template declarations (those that open a
\* specialization included), S of template specializations, I of include
\* directives, C of class declarations, F of function definitions and M of
\* macro definitions; the weights do not depend on a configuration toggle.
Reported == pc = "reported"

WeightedSum(c, weigh_templates) ==
    LET T == CountLines(c, {"template", "template_spec"})
        S == CountLines(c, {"template_spec"})
        I == CountLines(c, {"quote", "angle"})
        C == CountLines(c, {"class"})
        F == CountLines(c, {"function"})
        M == CountLines(c, {"define"})
    IN  (2 * ((IF weigh_templates THEN 3 * T + 2 * S ELSE 0) + I + 2 * C + F) + M) \div 2

C19_FixedWeights ==
    Reported =>
       \A f \in DOMAIN file_complexity :
          file_complexity[f] = WeightedSum(content[f], TRUE)

\* C19, amended: the terms 3*T + 2*S are part of the score when
\* enable_template_analysis is on only; with it off the score is
\* I + 2*C + F + 0.5*M truncated toward zero.
C19_WeightsByTemplateToggle ==
    Reported =>
       \A f \in DOMAIN file_complexity :
          /\ file_complexity[f] >= 0
          /\ file_complexity[f] =
               WeightedSum(content[f], analysis_config.enable_template_analysis)

\* a text with a template and an odd number of macro definitions, scored
\* with template analysis off
C19_Witness ==
    /\ Reported
    /\ ~analysis_config.enable_template_analysis
    /\ \E f \in DOMAIN file_complexity :
         /\ CountLines(content[f], {"template", "template_spec"}) > 0
         /\ CountLines(content[f], {"define"}) = 1
         /\ file_complexity[f] < WeightedSum(content[f], TRUE)

SlowestFiles ==
    LET sorted_files ==
            SortedByEstimate({p \in DOMAIN build_times_estimate :
                                build_times_estimate[p] > slow_file_micros},
                             build_times_estimate)
    IN  {sorted_files[i] : i \in {j \in 1..Len(sorted_files) : j <= max_slow_files}}

SuggestionsOf(type, target) ==
    {i \in 1..Len(suggestions) : suggestions[i].type = type /\ suggestions[i].target = target}

C21_SlowestFilesSuggested ==
    pc = "returned" =>
       \A f \in SlowestFiles : SuggestionsOf("CODE_RESTRUCTURING", f) # {}

\* C22: every cycle cycle detection reports is a closed walk in traversal
\* order: the contents of the DFS stack from the re-visited file onward, so
\* each consecutive pair of its files is an edge of the dependency graph and
\* its last file has an edge to its first.
ClosedWalk(cycle, graph) ==
    /\ cycle # <<>>
    /\ \A i \in 1..(Len(cycle) - 1) : cycle[i + 1] \in graph[cycle[i]]
    /\ cycle[1] \in graph[cycle[Len(cycle)]]

C22_CyclesAreClosedWalks ==
    pc \in {"unused", "checked"} =>
       \A k \in 1..Len(circular_deps) : ClosedWalk(circular_deps[k], include_graph)

\* C23: cycle detection, unused-header detection and suggestion derivation
\* start only when every per-file analysis of the parallel phase has ended:
\* from the first graph-level check on no worker is queued or running, so
\* none adds an edge, a count or an issue, also when an analysis took longer
\* than analysis_timeout.
GraphLevel == pc \in {"circular", "unused", "checked", "suggested", "estimated", "returned"}

C23_ChecksAfterWorkersEnd ==
    (GraphLevel /\ analysis_config.parallel_analysis) =>
       /\ Running = {}
       /\ \A f \in Catalog : task[f].at = "done" /\ f \in analysed

\* the checks have started after two workers ran at once, one of them for
\* longer than analysis_timeout, and left an edge and an issue
C23_Witness ==
    /\ pc = "unused"
    /\ analysis_config.parallel_analysis
    /\ max_workers > 1
    /\ overtime # {}
    /\ Running = {}
    /\ Edges(include_graph) # {}
    /\ issues # <<>>

\* C24: the issue list is in detection order: for one file ExcessiveIncludes
\* precedes HighComplexity, which precedes LargeHeader; every file-level
\* issue precedes every CircularDependency issue, and every such issue
\* precedes every UnusedHeader issue; in sequential mode the file-level
\* issues of different files stand in the order of the catalog.
DetectionRank(type) ==
    CASE type = "EXCESSIVE_INCLUDES" -> 1
      [] type = "HIGH_COMPLEXITY" -> 2
      [] type = "LARGE_HEADER" -> 3
      [] type = "CIRCULAR_DEPENDENCY" -> 4
      [] OTHER -> 5

FileLevel(issue) == issue.type \in file_issue_types

C24_IssuesInDetectionOrder ==
    \A i, j \in 1..Len(issues) :
       i < j =>
          /\ (FileLevel(issues[i]) /\ FileLevel(issues[j]) /\ issues[i].file = issues[j].file)
                => DetectionRank(issues[i].type) < DetectionRank(issues[j].type)
          /\ ~FileLevel(issues[i]) => ~FileLevel(issues[j])
          /\ issues[i].type = "UNUSED_HEADER" => issues[j].type = "UNUSED_HEADER"
          /\ (FileLevel(issues[i]) /\ FileLevel(issues[j])
               /\ ~analysis_config.parallel_analysis)
                => SortKey(issues[i].file) <= SortKey(issues[j].file)

\* a sequential run that found the three issues of a file, issues of another
\* file, a cycle and an unused header
C24_Witness ==
    /\ pc = "checked"
    /\ ~analysis_config.parallel_analysis
    /\ \E f, g \in Catalog :
         /\ f # g
         /\ \A type \in file_issue_types : IssuesOf(type, f) # {}
         /\ IssuesOf("EXCESSIVE_INCLUDES", g) # {}
    /\ IssuesOfType("CIRCULAR_DEPENDENCY") # {}
    /\ IssuesOfType("UNUSED_HEADER") # {}

\* C25: cycle detection is deterministic: every run on the same catalog and
\* the same edges, whatever the hash seed of its process, reports the same
\* list of cycles, with the same files in the same order in each cycle.
CyclesOfRun(ord) == DetectCircularDependencies(files, include_graph, <<>>, ord).circular_deps

C25_CyclesSameInEveryRun ==
    pc \in {"unused", "checked"} =>
       \A ord \in HashOrders : CyclesOfRun(ord) = circular_deps

\* C26: in parallel mode no update of the shared data is lost, whatever the
\* interleaving of the workers: when the phase ends the header frequency
\* counter and the reverse-dependency counter hold the values a sequential
\* pass over the same files leaves.
C26_CountersAsSequential ==
    pc = "circular" =>
       /\ \A n \in IncludeNames :
             header_frequency[n] = SequentialResult.header_frequency[n]
       /\ \A t \in DiskFiles :
             dependency_count[t] = SequentialResult.dependency_count[t]

\* C27: a second call of analyze_project on the same analyzer over an
\* unchanged tree does not accumulate on the first: the issue list, the
\* suggestion list, the cycle list, the header frequency counts and the
\* reverse-dependency counts after it are those after the first call.
C27_SecondRunAsFirst ==
    (pc = "returned" /\ earlier_runs # <<>>) =>
       LeftByRun = earlier_runs[Len(earlier_runs)]

\* C28: when the dependency graph holds a cycle and the circular-dependency
\* check is enabled, cycle detection reports at least one cycle and at least
\* one CircularDependency issue of severity High; and the number of
\* CircularDependency issues is the number of reported cycles.
C28_CycleIsReported ==
    /\ (/\ pc \in {"unused", "checked"}
        /\ analysis_config.enable_circular_dep_check
        /\ HasCycle(include_graph))
       => /\ Len(circular_deps) >= 1
          /\ \E i \in IssuesOfType("CIRCULAR_DEPENDENCY") : issues[i].severity = "HIGH"
    /\ Cardinality(IssuesOfType("CIRCULAR_DEPENDENCY")) = Len(circular_deps)
    /\ \A i \in IssuesOfType("CIRCULAR_DEPENDENCY") : issues[i].severity = "HIGH"

\* a graph of two cycles, a file that includes itself and two files that
\* include each other, after the check
C28_Witness ==
    /\ pc \in {"unused", "checked"}
    /\ \E f, g, h \in DiskFiles :
         /\ Cardinality({f, g, h}) = 3
         /\ f \in include_graph[f]
         /\ h \in include_graph[g]
         /\ g \in include_graph[h]
    /\ Len(circular_deps) >= 2
    /\ Cardinality(IssuesOfType("CIRCULAR_DEPENDENCY")) >= 2

\* C29: cycle detection terminates on every finite dependency graph, cyclic
\* ones included: no file is expanded, its dependencies gone through, more
\* than once, and detection ends, with no file left on the stack and every
\* file of the catalog in the visited set.
C29_DetectionEndsAllVisited ==
    /\ pc = "dfs" =>
         /\ {frames[i].file_path : i \in 2..Len(frames)} = recursion_stack
         /\ Cardinality(recursion_stack) = DfsDepth
         /\ recursion_stack \subseteq visited
    /\ pc # "raised"
    /\ pc = "unused" =>
         /\ recursion_stack = {}
         /\ Catalog \subseteq visited

\* C30: in the summary analyze_project returns, header_files + source_files
\* = total_files: every file of the catalog is counted as a header or as a
\* source, whatever recognized extension it has.
C30_HeadersAndSourcesAreAllFiles ==
    pc = "returned" =>
       result.header_files + result.source_files = result.total_files
====
